---- MODULE Spec2Model ----
(***************************************************************************)
(* Model of the chat hub of golang-chat (src/main.go): the Hub goroutine   *)
(* (Hub.run), the per-connection goroutines (Client.readPump,              *)
(* Client.writePump) and the gateway handler (serveWS).                    *)
(*                                                                         *)
(* Go channels are modelled by what they do:                               *)
(*   - h.register, h.unregister, h.broadcast are unbuffered: a send is a   *)
(*     rendezvous with the hub's select, so the sender's position and the  *)
(*     hub's receive change in one step;                                   *)
(*   - c.send is buffered: its contents are send[c], its capacity SendCap, *)
(*     close(c.send) is counted in closeCount[c]; a second close or a send *)
(*     on a closed channel panics and the process dies (panic).            *)
(* The hub's range over h.clients is one step per visited client, in any   *)
(* order, so that the outbound pumps can drain queues during a fan-out.    *)
(***************************************************************************)
EXTENDS Integers, Sequences, FiniteSets, TLC

\* ---------------------------------------------------------------- bounds
\* capacity of c.send; the code uses 256 (src/main.go:134), scaled down
SendCap == 1
\* number of successful ReadJSON calls over the whole run
MaxMsgs == 2
\* the same, in a run in which a single client connects (SoloSpec)
SoloMsgs == 3

\* the serveWS calls of a run, numbered in the order in which they are made;
\* each builds one fresh *Client. Two connections: the smallest population
\* in which one connection's queue can affect another's delivery.
Conns == {1, 2}

\* ?username= values of the upgrade request ("" = absent)
QueryNames == {"", "Alice"}
\* username values a client may put on the wire
WireNames == {"", "Mallory"}
Contents == {"hi"}

\* type Message struct (src/main.go:12); Timestamp is a reading of the clock
NoMsg == [username |-> "", content |-> "", timestamp |-> 0]
\* what a client can send: any username, any content, any timestamp
WireMsgs == [username : WireNames, content : Contents, timestamp : {0}]

VARIABLES
    clients,      \* h.clients: the set of keys of the map
    send,         \* c.send: buffered contents, per connection
    closeCount,   \* number of close(c.send) executed, per connection
    username,     \* c.username
    conn,         \* c.conn: "none" | "open" | "closed" (c.conn.Close() ran)
    gwPc,         \* position of serveWS for this connection
    rpPc,         \* position of readPump
    wpPc,         \* position of writePump
    rmsg,         \* readPump's local msg
    wmsg,         \* writePump's local message
    hubPc,        \* "select" | "fanout"
    hubMsg,       \* Hub.run's local message
    hubTodo,      \* clients the range loop has still to visit
    now,          \* the clock read by time.Now()
    panic,        \* "none" or the runtime panic that killed the process
    written,      \* messages written to the transport by WriteJSON
    closeSent,    \* a CloseMessage was written to the transport
    bcastLog,     \* history: messages received by the hub from h.broadcast
    enq,          \* history: messages ever enqueued in c.send
    fanMembers,   \* history: h.clients when the current fan-out started
    fanFull,      \* history: members whose queue was full at that moment
    evicted,      \* history: connections closed by a fan-out (queue full)
    readBy        \* history: readBy[t] is the connection whose inbound pump
                  \* read the message stamped with clock value t

vars == <<clients, send, closeCount, username, conn, gwPc, rpPc, wpPc,
          rmsg, wmsg, hubPc, hubMsg, hubTodo, now, panic, written, closeSent,
          bcastLog, enq, fanMembers, fanFull, evicted, readBy>>

connVars == <<username, conn, written, closeSent>>
pumpVars == <<rpPc, wpPc, rmsg, wmsg>>
hubLocals == <<hubPc, hubMsg, hubTodo>>
fanVars == <<fanMembers, fanFull>>
histVars == <<bcastLog, enq, evicted, readBy>>

\* ---------------------------------------------------------------- helpers
Closed(c) == closeCount[c] > 0

Running == panic = "none"

\* fmt.Sprintf("User%d", time.Now().Unix()%1000); the clock counts
\* nanoseconds (time.Time), Unix() is in seconds
FallbackName(t) == "User" \o ToString((t \div 1000000000) % 1000)

\* variant: the decoded username is kept
StampKeepWire(c, w, t) == [w EXCEPT !.timestamp = t]

\* msg.Username = c.username; msg.Timestamp = time.Now()
Stamp(c, w, t) == [w EXCEPT !.username = username[c], !.timestamp = t]

\* newHub + main: empty map, hub at its select, no connection yet
Init ==
    /\ clients = {}
    /\ send = [c \in Conns |-> <<>>]
    /\ closeCount = [c \in Conns |-> 0]
    /\ username = [c \in Conns |-> ""]
    /\ conn = [c \in Conns |-> "none"]
    /\ gwPc = [c \in Conns |-> "idle"]
    /\ rpPc = [c \in Conns |-> "none"]
    /\ wpPc = [c \in Conns |-> "none"]
    /\ rmsg = [c \in Conns |-> NoMsg]
    /\ wmsg = [c \in Conns |-> NoMsg]
    /\ hubPc = "select"
    /\ hubMsg = NoMsg
    /\ hubTodo = {}
    /\ now = 0
    /\ panic = "none"
    /\ written = [c \in Conns |-> <<>>]
    /\ closeSent = [c \in Conns |-> FALSE]
    /\ bcastLog = <<>>
    /\ enq = [c \in Conns |-> <<>>]
    /\ fanMembers = {}
    /\ fanFull = {}
    /\ evicted = {}
    /\ readBy = <<>>

\* ---------------------------------------------------------------- gateway
\* variant: the return after the failed upgrade is missing; the handler
\* builds the Client around the nil transport and goes on to register it
ServeWSUpgradeFailNoReturn(c) ==
    /\ Running
    /\ gwPc[c] = "idle"
    /\ \A d \in Conns : d < c => gwPc[d] # "idle"
    /\ gwPc' = [gwPc EXCEPT ![c] = "register"]
    /\ UNCHANGED <<clients, send, closeCount, connVars, pumpVars, hubLocals,
                   now, panic, histVars, fanVars>>

\* serveWS: upgrader.Upgrade fails, the handler returns
ServeWSUpgradeFail(c) ==
    /\ Running
    /\ gwPc[c] = "idle"
    /\ \A d \in Conns : d < c => gwPc[d] # "idle"
    /\ gwPc' = [gwPc EXCEPT ![c] = "failed"]
    /\ UNCHANGED <<clients, send, closeCount, connVars, pumpVars, hubLocals,
                   now, panic, histVars, fanVars>>

\* variant: the two go statements come before the send on h.register
ServeWSCreatePumpsFirst(c, q) ==
    /\ Running
    /\ gwPc[c] = "idle"
    /\ \A d \in Conns : d < c => gwPc[d] # "idle"
    /\ conn' = [conn EXCEPT ![c] = "open"]
    /\ username' = [username EXCEPT ![c] = IF q = "" THEN FallbackName(now) ELSE q]
    /\ send' = [send EXCEPT ![c] = <<>>]
    /\ wpPc' = [wpPc EXCEPT ![c] = "recv"]
    /\ rpPc' = [rpPc EXCEPT ![c] = "read"]
    /\ gwPc' = [gwPc EXCEPT ![c] = "register"]
    /\ UNCHANGED <<clients, closeCount, written, closeSent, rmsg, wmsg,
                   hubLocals, now, panic, histVars, fanVars>>

\* serveWS: upgrade, pick the username, build the Client, then block on
\* client.hub.register <- client
ServeWSCreate(c, q) ==
    /\ Running
    /\ gwPc[c] = "idle"
    /\ \A d \in Conns : d < c => gwPc[d] # "idle"
    /\ conn' = [conn EXCEPT ![c] = "open"]
    /\ username' = [username EXCEPT ![c] = IF q = "" THEN FallbackName(now) ELSE q]
    /\ send' = [send EXCEPT ![c] = <<>>]
    /\ gwPc' = [gwPc EXCEPT ![c] = "register"]
    /\ UNCHANGED <<clients, closeCount, written, closeSent, pumpVars,
                   hubLocals, now, panic, histVars, fanVars>>

\* serveWS: go client.writePump()
ServeWSGoWrite(c) ==
    /\ Running
    /\ gwPc[c] = "goWrite"
    /\ wpPc' = [wpPc EXCEPT ![c] = "recv"]
    /\ gwPc' = [gwPc EXCEPT ![c] = "goRead"]
    /\ UNCHANGED <<clients, send, closeCount, connVars, rpPc, rmsg, wmsg,
                   hubLocals, now, panic, histVars, fanVars>>

\* variant: the handler registers the client once more after starting the
\* pumps
ServeWSGoReadReRegister(c) ==
    /\ Running
    /\ gwPc[c] = "goRead"
    /\ rpPc' = [rpPc EXCEPT ![c] = "read"]
    /\ gwPc' = [gwPc EXCEPT ![c] = "register"]
    /\ UNCHANGED <<clients, send, closeCount, connVars, wpPc, rmsg, wmsg,
                   hubLocals, now, panic, histVars, fanVars>>

\* serveWS: go client.readPump(), then the handler returns
ServeWSGoRead(c) ==
    /\ Running
    /\ gwPc[c] = "goRead"
    /\ rpPc' = [rpPc EXCEPT ![c] = "read"]
    /\ gwPc' = [gwPc EXCEPT ![c] = "done"]
    /\ UNCHANGED <<clients, send, closeCount, connVars, wpPc, rmsg, wmsg,
                   hubLocals, now, panic, histVars, fanVars>>

\* ---------------------------------------------------------------- hub
\* variant: the hub goroutine is not the only writer of the map; the handler
\* inserts the client whatever the hub is doing
HubRegisterUnserialized(c) ==
    /\ Running
    /\ gwPc[c] = "register"
    /\ clients' = clients \cup {c}
    /\ gwPc' = [gwPc EXCEPT ![c] = "goWrite"]
    /\ UNCHANGED <<send, closeCount, connVars, pumpVars, hubLocals, now,
                   panic, histVars, fanVars>>

\* variant: h.register is buffered, so the handler's send returns before
\* the hub has inserted the client
HubRegisterBuffered(c) ==
    /\ Running
    /\ gwPc[c] = "register"
    /\ gwPc' = [gwPc EXCEPT ![c] = "goWrite"]
    /\ UNCHANGED <<clients, send, closeCount, connVars, pumpVars, hubLocals,
                   now, panic, histVars, fanVars>>

\* case client := <-h.register
HubRegister(c) ==
    /\ Running
    /\ hubPc = "select"
    /\ gwPc[c] = "register"
    /\ clients' = clients \cup {c}
    /\ gwPc' = [gwPc EXCEPT ![c] = "goWrite"]
    /\ UNCHANGED <<send, closeCount, connVars, pumpVars, hubLocals, now,
                   panic, histVars, fanVars>>

\* variant: the membership test is missing
IsMemberAlways(c) == TRUE

\* if _, ok := h.clients[client]; ok
IsMember(c) == c \in clients

\* variant: delete without close
RemoveNoClose(c) ==
    /\ clients' = clients \ {c}
    /\ UNCHANGED <<closeCount, panic>>

\* variant: close without delete
RemoveNoDelete(c) ==
    /\ closeCount' = [closeCount EXCEPT ![c] = @ + 1]
    /\ panic' = IF Closed(c) THEN "close of closed channel" ELSE panic
    /\ UNCHANGED clients

\* variant: the map is emptied instead of losing one key
RemoveAll(c) ==
    /\ clients' = {}
    /\ closeCount' = [closeCount EXCEPT ![c] = @ + 1]
    /\ panic' = IF Closed(c) THEN "close of closed channel" ELSE panic

\* delete(h.clients, client); close(client.send)
Remove(c) ==
    /\ clients' = clients \ {c}
    /\ closeCount' = [closeCount EXCEPT ![c] = @ + 1]
    /\ panic' = IF Closed(c) THEN "close of closed channel" ELSE panic

\* case client := <-h.unregister
HubUnregister(c) ==
    /\ Running
    /\ hubPc = "select"
    /\ rpPc[c] = "unreg"
    /\ rpPc' = [rpPc EXCEPT ![c] = "close"]
    /\ IF IsMember(c)
       THEN Remove(c)
       ELSE UNCHANGED <<clients, closeCount, panic>>
    /\ UNCHANGED <<send, connVars, gwPc, wpPc, rmsg, wmsg, hubLocals, now,
                   histVars, fanVars>>

\* variant: each broadcast is fanned out by a goroutine of its own
\* (go h.fanout(message)), so a message can overtake a fan-out in progress
HubBroadcastAsync(c) ==
    /\ Running
    /\ rpPc[c] = "bcast"
    /\ rpPc' = [rpPc EXCEPT ![c] = "read"]
    /\ rmsg' = [rmsg EXCEPT ![c] = NoMsg]
    /\ bcastLog' = Append(bcastLog, rmsg[c])
    /\ IF hubPc = "select"
       THEN /\ hubMsg' = rmsg[c]
            /\ hubTodo' = clients
            /\ hubPc' = "fanout"
            /\ fanMembers' = clients
            /\ fanFull' = {d \in clients : Len(send[d]) = SendCap}
            /\ UNCHANGED <<send, enq>>
       ELSE /\ send' = [d \in Conns |->
                          IF d \in clients /\ Len(send[d]) < SendCap
                          THEN Append(send[d], rmsg[c]) ELSE send[d]]
            /\ enq' = [d \in Conns |->
                          IF d \in clients /\ Len(send[d]) < SendCap
                          THEN Append(enq[d], rmsg[c]) ELSE enq[d]]
            /\ UNCHANGED <<hubLocals, fanVars>>
    /\ UNCHANGED <<clients, closeCount, connVars, gwPc, wpPc, wmsg, now,
                   panic, evicted, readBy>>

\* variant: the sender is always among the clients visited (echo), member
\* or not
HubBroadcastEcho(c) ==
    /\ Running
    /\ hubPc = "select"
    /\ rpPc[c] = "bcast"
    /\ rpPc' = [rpPc EXCEPT ![c] = "read"]
    /\ rmsg' = [rmsg EXCEPT ![c] = NoMsg]
    /\ hubMsg' = rmsg[c]
    /\ hubTodo' = clients \cup {c}
    /\ hubPc' = "fanout"
    /\ bcastLog' = Append(bcastLog, rmsg[c])
    /\ fanMembers' = clients
    /\ fanFull' = {d \in clients : Len(send[d]) = SendCap}
    /\ UNCHANGED <<clients, send, closeCount, connVars, gwPc, wpPc, wmsg,
                   now, panic, enq, evicted, readBy>>

\* variant: the hub takes a message while a fan-out is in progress and
\* starts over with it
HubBroadcastNoWait(c) ==
    /\ Running
    /\ rpPc[c] = "bcast"
    /\ rpPc' = [rpPc EXCEPT ![c] = "read"]
    /\ rmsg' = [rmsg EXCEPT ![c] = NoMsg]
    /\ hubMsg' = rmsg[c]
    /\ hubTodo' = clients
    /\ hubPc' = "fanout"
    /\ bcastLog' = Append(bcastLog, rmsg[c])
    /\ fanMembers' = clients
    /\ fanFull' = {d \in clients : Len(send[d]) = SendCap}
    /\ UNCHANGED <<clients, send, closeCount, connVars, gwPc, wpPc, wmsg,
                   now, panic, enq, evicted, readBy>>

\* case message := <-h.broadcast, up to the start of the range loop
HubBroadcast(c) ==
    /\ Running
    /\ hubPc = "select"
    /\ rpPc[c] = "bcast"
    /\ rpPc' = [rpPc EXCEPT ![c] = "read"]
    /\ rmsg' = [rmsg EXCEPT ![c] = NoMsg]
    /\ hubMsg' = rmsg[c]
    /\ hubTodo' = clients
    /\ hubPc' = "fanout"
    /\ bcastLog' = Append(bcastLog, rmsg[c])
    /\ fanMembers' = clients
    /\ fanFull' = {d \in clients : Len(send[d]) = SendCap}
    /\ UNCHANGED <<clients, send, closeCount, connVars, gwPc, wpPc, wmsg,
                   now, panic, enq, evicted, readBy>>

\* variant: the buffer is taken to be full one slot early
HasRoomOffByOne(c) == Len(send[c]) < SendCap - 1

\* variant: one message more than the capacity is accepted
HasRoomOnePast(c) == Len(send[c]) <= SendCap

\* the buffered channel c.send accepts a send without blocking
HasRoom(c) == Len(send[c]) < SendCap

\* case client.send <- message
Enqueue(c) ==
    /\ send' = [send EXCEPT ![c] = Append(@, hubMsg)]
    /\ enq' = [enq EXCEPT ![c] = Append(@, hubMsg)]
    /\ UNCHANGED <<clients, closeCount, panic, evicted>>

\* variant: the message is dropped for a full queue, the client stays
EvictFullDrop(c) ==
    UNCHANGED <<clients, closeCount, panic, evicted, send, enq>>

\* variant: close without delete
EvictFullNoDelete(c) ==
    /\ closeCount' = [closeCount EXCEPT ![c] = @ + 1]
    /\ panic' = IF Closed(c) THEN "close of closed channel" ELSE panic
    /\ evicted' = evicted \cup {c}
    /\ UNCHANGED <<clients, send, enq>>

\* default: close(client.send); delete(h.clients, client)
EvictFull(c) ==
    /\ closeCount' = [closeCount EXCEPT ![c] = @ + 1]
    /\ panic' = IF Closed(c) THEN "close of closed channel" ELSE panic
    /\ clients' = clients \ {c}
    /\ evicted' = evicted \cup {c}
    /\ UNCHANGED <<send, enq>>

\* variant: the loop is left after an eviction (break in the default case)
HubFanoutStepBreak(c) ==
    /\ Running
    /\ hubPc = "fanout"
    /\ c \in hubTodo
    /\ IF Closed(c)
       THEN /\ panic' = "send on closed channel"
            /\ hubTodo' = hubTodo \ {c}
            /\ UNCHANGED <<clients, send, closeCount, enq, evicted>>
       ELSE IF HasRoom(c)
       THEN Enqueue(c) /\ hubTodo' = hubTodo \ {c}
       ELSE EvictFull(c) /\ hubTodo' = {}
    /\ UNCHANGED <<connVars, gwPc, pumpVars, hubPc, hubMsg, now, bcastLog,
                   readBy, fanVars>>

\* variant: a plain client.send <- message, which blocks while the buffer
\* is full
HubFanoutStepBlocking(c) ==
    /\ Running
    /\ hubPc = "fanout"
    /\ c \in hubTodo
    /\ Closed(c) \/ HasRoom(c)
    /\ hubTodo' = hubTodo \ {c}
    /\ IF Closed(c)
       THEN /\ panic' = "send on closed channel"
            /\ UNCHANGED <<clients, send, closeCount, enq, evicted>>
       ELSE Enqueue(c)
    /\ UNCHANGED <<connVars, gwPc, pumpVars, hubPc, hubMsg, now, bcastLog,
                   readBy, fanVars>>

\* variant: a member whose transport is closed is evicted like a member
\* whose buffer is full
HubFanoutStepEvictDead(c) ==
    /\ Running
    /\ hubPc = "fanout"
    /\ c \in hubTodo
    /\ hubTodo' = hubTodo \ {c}
    /\ IF Closed(c)
       THEN /\ panic' = "send on closed channel"
            /\ UNCHANGED <<clients, send, closeCount, enq, evicted>>
       ELSE IF HasRoom(c) /\ conn[c] = "open"
       THEN Enqueue(c)
       ELSE EvictFull(c)
    /\ UNCHANGED <<connVars, gwPc, pumpVars, hubPc, hubMsg, now, bcastLog,
                   readBy, fanVars>>

\* one iteration of for client := range h.clients: the non-blocking send,
\* or close and delete when the buffer is full
HubFanoutStep(c) ==
    /\ Running
    /\ hubPc = "fanout"
    /\ c \in hubTodo
    /\ hubTodo' = hubTodo \ {c}
    /\ IF Closed(c)
       THEN /\ panic' = "send on closed channel"
            /\ UNCHANGED <<clients, send, closeCount, enq, evicted>>
       ELSE IF HasRoom(c)
       THEN Enqueue(c)
       ELSE EvictFull(c)
    /\ UNCHANGED <<connVars, gwPc, pumpVars, hubPc, hubMsg, now, bcastLog,
                   readBy, fanVars>>

\* the range loop is over: back to the select
HubFanoutDone ==
    /\ Running
    /\ hubPc = "fanout"
    /\ hubTodo = {}
    /\ hubPc' = "select"
    /\ hubMsg' = NoMsg
    /\ fanMembers' = {}
    /\ fanFull' = {}
    /\ UNCHANGED <<clients, send, closeCount, connVars, gwPc, pumpVars,
                   hubTodo, now, panic, histVars>>

\* ---------------------------------------------------------------- readPump
\* variant: the submission does not block (a select with a default case);
\* the message is dropped when the hub is busy with a fan-out
ReadOKNoBlock(c, w, n) ==
    /\ Running
    /\ rpPc[c] = "read"
    /\ conn[c] = "open"
    /\ now < n
    /\ now' = now + 1
    /\ readBy' = Append(readBy, c)
    /\ IF hubPc = "select"
       THEN /\ rmsg' = [rmsg EXCEPT ![c] = Stamp(c, w, now + 1)]
            /\ rpPc' = [rpPc EXCEPT ![c] = "bcast"]
       ELSE UNCHANGED <<rmsg, rpPc>>
    /\ UNCHANGED <<clients, send, closeCount, connVars, gwPc, wpPc, wmsg,
                   hubLocals, panic, bcastLog, enq, evicted, fanVars>>

\* c.conn.ReadJSON succeeds; the message is stamped and the pump blocks on
\* c.hub.broadcast <- msg; n caps the number of reads of a run
ReadOKWithin(c, w, n) ==
    /\ Running
    /\ rpPc[c] = "read"
    /\ conn[c] = "open"
    /\ now < n
    /\ now' = now + 1
    /\ rmsg' = [rmsg EXCEPT ![c] = Stamp(c, w, now + 1)]
    /\ rpPc' = [rpPc EXCEPT ![c] = "bcast"]
    /\ readBy' = Append(readBy, c)
    /\ UNCHANGED <<clients, send, closeCount, connVars, gwPc, wpPc, wmsg,
                   hubLocals, panic, bcastLog, enq, evicted, fanVars>>

\* the same, within the message budget of the two-connection runs
ReadOK(c, w) == ReadOKWithin(c, w, MaxMsgs)

\* variant: the deferred function only closes the transport
ReadFailNoUnreg(c) ==
    /\ Running
    /\ rpPc[c] = "read"
    /\ rpPc' = [rpPc EXCEPT ![c] = "close"]
    /\ UNCHANGED <<clients, send, closeCount, connVars, gwPc, wpPc, rmsg,
                   wmsg, hubLocals, now, panic, histVars, fanVars>>

\* variant: the deferred function closes the transport first and sends on
\* h.unregister afterwards
ReadFailCloseFirst(c) ==
    /\ Running
    /\ rpPc[c] = "read"
    /\ rpPc' = [rpPc EXCEPT ![c] = "unreg"]
    /\ conn' = [conn EXCEPT ![c] = "closed"]
    /\ UNCHANGED <<clients, send, closeCount, username, written, closeSent,
                   gwPc, wpPc, rmsg, wmsg, hubLocals, now, panic, histVars,
                   fanVars>>

\* c.conn.ReadJSON fails (peer close, malformed frame, network error or
\* closed transport): break, and the deferred function blocks on
\* c.hub.unregister <- c
ReadFail(c) ==
    /\ Running
    /\ rpPc[c] = "read"
    /\ rpPc' = [rpPc EXCEPT ![c] = "unreg"]
    /\ UNCHANGED <<clients, send, closeCount, connVars, gwPc, wpPc, rmsg,
                   wmsg, hubLocals, now, panic, histVars, fanVars>>

\* the deferred c.conn.Close() of readPump
ReadPumpClose(c) ==
    /\ Running
    /\ rpPc[c] = "close"
    /\ conn' = [conn EXCEPT ![c] = "closed"]
    /\ rpPc' = [rpPc EXCEPT ![c] = "done"]
    /\ UNCHANGED <<clients, send, closeCount, username, written,
                   closeSent, gwPc, wpPc, rmsg, wmsg, hubLocals, now, panic,
                   histVars, fanVars>>

\* ---------------------------------------------------------------- writePump
\* variant: the message is read from the buffer but left in it
WriteRecvNoPop(c) ==
    /\ Running
    /\ wpPc[c] = "recv"
    /\ send[c] # <<>>
    /\ wmsg' = [wmsg EXCEPT ![c] = Head(send[c])]
    /\ wpPc' = [wpPc EXCEPT ![c] = "write"]
    /\ UNCHANGED <<clients, send, closeCount, connVars, gwPc, rpPc, rmsg,
                   hubLocals, now, panic, histVars, fanVars>>

\* case message, ok := <-c.send with ok: a buffered message is received
WriteRecv(c) ==
    /\ Running
    /\ wpPc[c] = "recv"
    /\ send[c] # <<>>
    /\ wmsg' = [wmsg EXCEPT ![c] = Head(send[c])]
    /\ send' = [send EXCEPT ![c] = Tail(@)]
    /\ wpPc' = [wpPc EXCEPT ![c] = "write"]
    /\ UNCHANGED <<clients, closeCount, connVars, gwPc, rpPc, rmsg,
                   hubLocals, now, panic, histVars, fanVars>>

\* variant: an empty buffer is taken for a closed channel
WriteRecvClosedNoCheck(c, ok) ==
    /\ Running
    /\ wpPc[c] = "recv"
    /\ send[c] = <<>>
    /\ ok => conn[c] = "open"
    /\ closeSent' = [closeSent EXCEPT ![c] = ok]
    /\ conn' = [conn EXCEPT ![c] = "closed"]
    /\ wpPc' = [wpPc EXCEPT ![c] = "done"]
    /\ UNCHANGED <<clients, send, closeCount, username, written,
                   gwPc, rpPc, rmsg, wmsg, hubLocals, now, panic, histVars,
                   fanVars>>

\* variant: the pump leaves as soon as the channel is closed, whatever the
\* buffer still holds
WriteRecvClosedEarly(c, ok) ==
    /\ Running
    /\ wpPc[c] = "recv"
    /\ Closed(c)
    /\ ok => conn[c] = "open"
    /\ closeSent' = [closeSent EXCEPT ![c] = ok]
    /\ conn' = [conn EXCEPT ![c] = "closed"]
    /\ wpPc' = [wpPc EXCEPT ![c] = "done"]
    /\ UNCHANGED <<clients, send, closeCount, username, written,
                   gwPc, rpPc, rmsg, wmsg, hubLocals, now, panic, histVars,
                   fanVars>>

\* !ok: the channel is closed and drained; write the CloseMessage, which
\* succeeds (ok) only on an open transport and whose error is ignored,
\* return, and the deferred c.conn.Close() runs
WriteRecvClosed(c, ok) ==
    /\ Running
    /\ wpPc[c] = "recv"
    /\ send[c] = <<>>
    /\ Closed(c)
    /\ ok => conn[c] = "open"
    /\ closeSent' = [closeSent EXCEPT ![c] = ok]
    /\ conn' = [conn EXCEPT ![c] = "closed"]
    /\ wpPc' = [wpPc EXCEPT ![c] = "done"]
    /\ UNCHANGED <<clients, send, closeCount, username, written,
                   gwPc, rpPc, rmsg, wmsg, hubLocals, now, panic, histVars,
                   fanVars>>

\* c.conn.WriteJSON(message) succeeds
WriteOK(c) ==
    /\ Running
    /\ wpPc[c] = "write"
    /\ conn[c] = "open"
    /\ written' = [written EXCEPT ![c] = Append(@, wmsg[c])]
    /\ wpPc' = [wpPc EXCEPT ![c] = "recv"]
    /\ wmsg' = [wmsg EXCEPT ![c] = NoMsg]
    /\ UNCHANGED <<clients, send, closeCount, username, conn, closeSent,
                   gwPc, rpPc, rmsg, hubLocals, now, panic, histVars,
                   fanVars>>

\* variant: writePump has no deferred c.conn.Close()
WriteFailNoClose(c) ==
    /\ Running
    /\ wpPc[c] = "write"
    /\ wpPc' = [wpPc EXCEPT ![c] = "done"]
    /\ wmsg' = [wmsg EXCEPT ![c] = NoMsg]
    /\ UNCHANGED <<clients, send, closeCount, connVars, gwPc, rpPc, rmsg,
                   hubLocals, now, panic, histVars, fanVars>>

\* c.conn.WriteJSON(message) fails (the peer is gone, the network dropped
\* the transport, or it is closed): return, and the deferred c.conn.Close()
WriteFail(c) ==
    /\ Running
    /\ wpPc[c] = "write"
    /\ conn' = [conn EXCEPT ![c] = "closed"]
    /\ wpPc' = [wpPc EXCEPT ![c] = "done"]
    /\ wmsg' = [wmsg EXCEPT ![c] = NoMsg]
    /\ UNCHANGED <<clients, send, closeCount, username, written,
                   closeSent, gwPc, rpPc, rmsg, hubLocals, now, panic,
                   histVars, fanVars>>

Next ==
    \/ \E c \in Conns : ServeWSUpgradeFail(c)
    \/ \E c \in Conns, q \in QueryNames : ServeWSCreate(c, q)
    \/ \E c \in Conns : ServeWSGoWrite(c)
    \/ \E c \in Conns : ServeWSGoRead(c)
    \/ \E c \in Conns : HubRegister(c)
    \/ \E c \in Conns : HubUnregister(c)
    \/ \E c \in Conns : HubBroadcast(c)
    \/ \E c \in Conns : HubFanoutStep(c)
    \/ HubFanoutDone
    \/ \E c \in Conns, w \in WireMsgs : ReadOK(c, w)
    \/ \E c \in Conns : ReadFail(c)
    \/ \E c \in Conns : ReadPumpClose(c)
    \/ \E c \in Conns : WriteRecv(c)
    \/ \E c \in Conns, ok \in BOOLEAN : WriteRecvClosed(c, ok)
    \/ \E c \in Conns : WriteOK(c)
    \/ \E c \in Conns : WriteFail(c)

Spec == Init /\ [][Next]_vars

\* the hub goroutine is scheduled: a fan-out in progress goes on
HubFanout == HubFanoutDone \/ \E c \in Conns : HubFanoutStep(c)

\* the hub's select takes a sender that is blocked on one of its channels
HubAccept(c) == HubRegister(c) \/ HubUnregister(c) \/ HubBroadcast(c)

\* Go's select picks among the ready cases at random and the runtime queues
\* blocked senders, so a sender that stays blocked is eventually taken;
\* nothing is assumed of the pumps' I/O (a pump may stall for ever)
FairSpec == Spec /\ WF_vars(HubFanout) /\ \A c \in Conns : SF_vars(HubAccept(c))

\* a ReadJSON on a transport that c.conn.Close() has closed returns an error
ReadFailOnClosed(c) == conn[c] = "closed" /\ ReadFail(c)

\* FairSpec, and the Go scheduler runs a started goroutine: readPump starts
\* after its go statement, and a read on a closed transport returns; still
\* nothing is assumed of reads and writes on an open transport
PumpFairSpec ==
    /\ FairSpec
    /\ \A c \in Conns : WF_vars(ServeWSGoRead(c)) /\ WF_vars(ReadFailOnClosed(c))

\* a WriteJSON on a transport that c.conn.Close() has closed returns an error
WriteFailOnClosed(c) == conn[c] = "closed" /\ WriteFail(c)

\* PumpFairSpec, and every step of a goroutine that does not wait for the
\* peer is taken: the go statements, the deferred close, the receive from
\* c.send (a buffered message, or the closed and drained channel with the
\* close message that follows), and a write on a closed transport returns;
\* a ReadJSON or a WriteJSON on an open transport may still never return
\* (the code sets no deadline)
SchedFairSpec ==
    /\ PumpFairSpec
    /\ \A c \in Conns :
          /\ WF_vars(ServeWSGoWrite(c))
          /\ WF_vars(ReadPumpClose(c))
          /\ WF_vars(WriteRecv(c))
          /\ WF_vars(\E ok \in BOOLEAN : WriteRecvClosed(c, ok))
          /\ WF_vars(WriteFailOnClosed(c))

\* the server when a single client connects: the same steps, for the first
\* serveWS call only, with a message budget of SoloMsgs
SoloNext ==
    \/ ServeWSUpgradeFail(1)
    \/ \E q \in QueryNames : ServeWSCreate(1, q)
    \/ ServeWSGoWrite(1)
    \/ ServeWSGoRead(1)
    \/ HubRegister(1)
    \/ HubUnregister(1)
    \/ HubBroadcast(1)
    \/ HubFanoutStep(1)
    \/ HubFanoutDone
    \/ \E w \in WireMsgs : ReadOKWithin(1, w, SoloMsgs)
    \/ ReadFail(1)
    \/ ReadPumpClose(1)
    \/ WriteRecv(1)
    \/ \E ok \in BOOLEAN : WriteRecvClosed(1, ok)
    \/ WriteOK(1)
    \/ WriteFail(1)

SoloSpec == Init /\ [][SoloNext]_vars

\* ---------------------------------------------------------------- properties
\* number of occurrences of m in the sequence s
Count(s, m) == Cardinality({i \in DOMAIN s : s[i] = m})

RECURSIVE IsSubseq(_, _)
\* s can be obtained from t by deleting elements
IsSubseq(s, t) ==
    IF s = <<>> THEN TRUE
    ELSE IF t = <<>> THEN FALSE
    ELSE IF Head(s) = Head(t) THEN IsSubseq(Tail(s), Tail(t))
    ELSE IsSubseq(s, Tail(t))

\* the hub has accepted the connection's register request
Admitted(c) == gwPc[c] \in {"goWrite", "goRead", "done"}

\* the range loop of the current fan-out has visited every client
FanoutEnd == hubPc = "fanout" /\ hubTodo = {}

\* a gateway or a pump is blocked in a send on one of the hub's channels
Blocked(c) == gwPc[c] = "register" \/ rpPc[c] \in {"unreg", "bcast"}

\* C1 - Broadcast completeness: during the fan-out of a message m, a member
\* of the set at the start of the fan-out whose queue was not full then has
\* exactly one copy of m appended to its queue once the loop has visited it,
\* a client not yet visited or not a member has none, and nobody ever has
\* more than one.
C1_BroadcastCompleteness ==
    hubPc = "fanout" =>
        \A c \in Conns :
            /\ Count(enq[c], hubMsg) <= 1
            /\ (c \in (fanMembers \ fanFull) \ hubTodo) => Count(enq[c], hubMsg) = 1
            /\ (c \in hubTodo \/ c \notin fanMembers) => Count(enq[c], hubMsg) = 0

\* a fan-out over two members with room has ended and both, the submitter
\* included, hold the message
C1_Witness ==
    /\ FanoutEnd
    /\ fanMembers = Conns
    /\ fanFull = {}
    /\ \A c \in Conns : Count(enq[c], hubMsg) = 1
    /\ \E c \in Conns : username[c] = hubMsg.username

\* C2 - Order preservation: what a queue has received, and what it holds, is
\* a subsequence of the order in which the hub received the messages from
\* the broadcast channel.
C2_OrderPreservation ==
    \A c \in Conns :
        /\ IsSubseq(enq[c], bcastLog)
        /\ IsSubseq(send[c], enq[c])

\* a queue has received two messages that the hub took in the opposite
\* order of their reading
C2_Witness ==
    \E c \in Conns :
        /\ Len(enq[c]) = 2
        /\ enq[c] = bcastLog
        /\ bcastLog[1].timestamp > bcastLog[2].timestamp

\* C3 - Slow-consumer eviction: a loop iteration that finds the client's queue
\* full closes the queue and deletes the client from the set, which is what
\* the unregister case does, and does not add the message to the queue.
C3_SlowConsumerEviction ==
    [][\A c \in Conns :
          (hubPc = "fanout" /\ c \in hubTodo /\ c \notin hubTodo'
              /\ Len(send[c]) = SendCap)
          => /\ clients' = clients \ {c}
             /\ closeCount' = [closeCount EXCEPT ![c] = 1]
             /\ send' = send
             /\ enq' = enq
             /\ panic' = "none"]_vars

\* a member found full has been evicted by the current fan-out
C3_Witness ==
    /\ hubPc = "fanout"
    /\ \E c \in fanFull :
        /\ c \in evicted
        /\ c \notin clients
        /\ Closed(c)
        /\ Count(enq[c], hubMsg) = 0

\* C4 - Eviction isolation: a fan-out that evicted a saturated member has, at
\* its end, enqueued the message to every other member that had room, in
\* whatever order the members were visited, and every iteration of the loop
\* can be taken without waiting for any pump.
C4_EvictionIsolation ==
    /\ (FanoutEnd /\ fanMembers \cap evicted # {}) =>
          \A d \in fanMembers \ fanFull :
              /\ d \in clients
              /\ Count(enq[d], hubMsg) = 1
    /\ (hubPc = "fanout" /\ Running) =>
          \A c \in hubTodo : ENABLED HubFanoutStep(c)

\* a fan-out has evicted one member and delivered to the other
C4_Witness ==
    /\ FanoutEnd
    /\ \E c \in fanFull, d \in fanMembers \ fanFull :
        /\ c \in evicted /\ c \notin clients
        /\ Count(enq[d], hubMsg) = 1
        /\ wpPc[c] = "recv"

\* C5 - The hub never blocks and never stops: it is always at its select or
\* at a loop iteration it can take, it comes back to the select again and
\* again, and every gateway or pump blocked on one of its channels is
\* eventually accepted, whatever the outbound pumps do.
C5_HubNeverBlocks ==
    /\ [](Running /\ (hubPc = "select" \/ ENABLED HubFanout))
    /\ []<>(hubPc = "select")
    /\ \A c \in Conns : Blocked(c) ~> ~Blocked(c)

\* a pump is blocked on the hub while the hub is in a fan-out over a full
\* queue
C5_Witness ==
    /\ hubPc = "fanout"
    /\ \E c \in hubTodo : Len(send[c]) = SendCap
    /\ \E d \in Conns : Blocked(d)

\* C6 - A queue is closed at most once, in every interleaving.
C6_ClosedAtMostOnce ==
    /\ \A c \in Conns : closeCount[c] <= 1
    /\ panic # "close of closed channel"

\* the hub has evicted a connection and has then taken the remove request
\* of its inbound pump
C6_Witness ==
    \E c \in evicted : rpPc[c] \in {"close", "done"} /\ closeCount[c] = 1

\* C7 - Idempotent remove: taking the remove request of a connection that is
\* not in the set leaves the set and every queue (contents, open or closed)
\* unchanged.
C7_IdempotentRemove ==
    [][\A c \in Conns :
          (hubPc = "select" /\ rpPc[c] = "unreg" /\ rpPc'[c] = "close"
              /\ c \notin clients)
          => /\ clients' = clients
             /\ send' = send
             /\ closeCount' = closeCount
             /\ panic' = "none"]_vars

\* the remove request of an evicted connection has been taken while the
\* other connection is a member with a message in its queue
C7_Witness ==
    \E c \in evicted, d \in clients :
        /\ rpPc[c] = "close"
        /\ send[d] # <<>>

\* C8 - Membership invariant: whenever the hub is at its select, the set
\* holds exactly the admitted connections whose queue is open.
C8_MembershipInvariant ==
    hubPc = "select" =>
        \A c \in Conns : c \in clients <=> (Admitted(c) /\ ~Closed(c))

\* the hub is at its select with a member, and with an admitted connection
\* that is no longer a member
C8_Witness ==
    /\ hubPc = "select"
    /\ \E c \in clients, d \in Conns \ clients : Admitted(d) /\ Closed(d)

\* C9 - After removal: a removed connection has a closed queue, no later
\* step enqueues to it, and no send on a closed queue occurs.
C9_NoDeliveryAfterRemoval ==
    /\ [](\A c \in Conns : (Admitted(c) /\ c \notin clients) => Closed(c))
    /\ [](panic # "send on closed channel")
    /\ [][\A c \in Conns :
            (Admitted(c) /\ c \notin clients)
            => /\ enq'[c] = enq[c]
               /\ IsSubseq(send'[c], send[c])
               /\ c \notin clients']_vars

\* a fan-out has delivered a message to a member after the other connection
\* was removed
C9_Witness ==
    /\ FanoutEnd
    /\ \E c \in Conns \ clients, d \in clients :
        /\ Admitted(c) /\ Closed(c)
        /\ c \notin fanMembers
        /\ Count(enq[d], hubMsg) = 1

\* C10 - Atomic hub operations: while a fan-out is in progress no register
\* and no unregister request is taken and the set only loses the clients
\* the loop finds full; the set changes only in a step of the hub (a request
\* taken at the select, or an eviction).
C10_AtomicHubOperations ==
    [][/\ hubPc = "fanout" =>
            /\ \A c \in Conns : Blocked(c) => (gwPc'[c] = gwPc[c] /\ rpPc'[c] = rpPc[c])
            /\ clients' \subseteq clients
            /\ \A c \in clients \ clients' :
                  c \in hubTodo /\ c \notin hubTodo' /\ Len(send[c]) = SendCap
       /\ (hubPc = "select" /\ clients' # clients) =>
            \E c \in Conns :
                \/ gwPc[c] = "register" /\ gwPc'[c] = "goWrite"
                      /\ clients' = clients \cup {c}
                \/ rpPc[c] = "unreg" /\ rpPc'[c] = "close"
                      /\ clients' = clients \ {c}]_vars

\* a register request and a remove request wait while the hub is in the
\* middle of a fan-out
C10_Witness ==
    /\ hubPc = "fanout"
    /\ hubTodo # {}
    /\ hubTodo # fanMembers
    /\ \E c \in Conns : gwPc[c] = "register" \/ rpPc[c] = "unreg"

\* C11 - Admission ordering: a connection's register request is issued once,
\* from the handler's start and with the transport open and the queue empty
\* and open, and no pump of the connection has left its start before the hub
\* has taken that request.
C11_AdmissionOrdering ==
    /\ [](\A c \in Conns :
            /\ (rpPc[c] # "none" \/ wpPc[c] # "none") => Admitted(c)
            /\ gwPc[c] = "register" =>
                  /\ conn[c] = "open"
                  /\ send[c] = <<>> /\ ~Closed(c)
                  /\ c \notin clients)
    /\ [][\A c \in Conns :
            /\ (gwPc'[c] = "register" /\ gwPc[c] # "register") => gwPc[c] = "idle"
            /\ gwPc[c] # "idle" => gwPc'[c] # "idle"
            /\ (rpPc[c] = "none" /\ rpPc'[c] # "none") => gwPc[c] = "goRead"
            /\ (wpPc[c] = "none" /\ wpPc'[c] # "none") => gwPc[c] = "goWrite"]_vars

\* both pumps of an admitted connection have taken a step
C11_Witness ==
    \E c \in Conns : Admitted(c) /\ rpPc[c] = "bcast" /\ wpPc[c] = "write"

\* C12 - Admit postcondition: from the moment the handler's send on
\* h.register has returned until the queue is closed (remove or eviction),
\* the connection is in the set, and every fan-out that starts in between
\* starts with the connection among the clients to visit.
C12_AdmitPostcondition ==
    /\ [](\A c \in Conns : (Admitted(c) /\ ~Closed(c)) => c \in clients)
    /\ [][(hubPc = "select" /\ hubPc' = "fanout") =>
            \A c \in Conns :
                (Admitted(c) /\ ~Closed(c)) => (c \in hubTodo' /\ c \in fanMembers')]_vars

\* a connection whose admit has just returned, no pump started yet, has
\* received the message of a fan-out
C12_Witness ==
    /\ hubPc = "fanout"
    /\ \E c \in fanMembers : gwPc[c] = "goWrite" /\ Count(enq[c], hubMsg) = 1

\* the inbound pump has left its read loop on a failed read
ReadEnded(c) == rpPc[c] \in {"unreg", "close", "done"}

\* C13 - Read failure is terminal: an inbound pump that has seen a read fail
\* never reads again and the hub takes no further message from it, and the
\* connection is eventually out of the set with its queue closed.
C13_ReadFailureTerminal ==
    /\ [][\A c \in Conns :
            ReadEnded(c) =>
                /\ ReadEnded(c)'
                /\ rmsg'[c] = rmsg[c]
                /\ readBy' # readBy => readBy'[Len(readBy')] # c
                /\ bcastLog' # bcastLog =>
                      readBy[bcastLog'[Len(bcastLog')].timestamp] # c]_vars
    /\ \A c \in Conns : ReadEnded(c) ~> (c \notin clients /\ Closed(c))

\* a pump that had submitted a message has seen a read fail while its
\* connection was a member, and the hub has then removed the connection
C13_Witness ==
    \E c \in Conns :
        /\ rpPc[c] = "done"
        /\ c \notin evicted
        /\ Closed(c)
        /\ \E i \in DOMAIN bcastLog : readBy[bcastLog[i].timestamp] = c

\* C14 - Write failure leads to removal: an outbound pump that sees a write
\* fail exits for good, in a step that changes neither the set nor any queue
\* nor the inbound pump, and the connection is nevertheless eventually out
\* of the set.
C14_WriteFailureLeadsToRemoval ==
    /\ [][\A c \in Conns :
            /\ (wpPc[c] = "write" /\ wpPc'[c] = "done") =>
                  /\ clients' = clients
                  /\ closeCount' = closeCount
                  /\ send' = send
                  /\ written' = written
                  /\ rpPc' = rpPc
            /\ wpPc[c] = "done" => wpPc'[c] = "done"]_vars
    /\ \A c \in Conns : (wpPc[c] = "done") ~> (c \notin clients /\ Closed(c))

\* an outbound pump has exited on a write failure while its connection is a
\* member and its inbound pump is reading
C14_Witness ==
    \E c \in clients :
        /\ wpPc[c] = "done"
        /\ ~Closed(c)
        /\ rpPc[c] = "read"
        /\ conn[c] = "closed"

\* s is an initial segment of t
IsPrefix(s, t) == Len(s) <= Len(t) /\ SubSeq(t, 1, Len(s)) = s

\* the message the outbound pump has received and not yet written
InFlight(c) == IF wpPc[c] = "write" THEN <<wmsg[c]>> ELSE <<>>

C16_CloseNotificationAlways ==
    \A c \in Conns : (Closed(c) /\ wpPc[c] = "done") => closeSent[c]

\* C16 as amended - an outbound pump that finds its queue closed by the hub
\* and empty attempts the close notification and exits, closing the
\* transport; the notification is written only on a transport that is still
\* open, only in that step, and a pump that exits on a write failure writes
\* none.
C16_CloseNotification ==
    /\ [](\A c \in Conns : closeSent[c] => (Closed(c) /\ wpPc[c] = "done"))
    /\ [][\A c \in Conns :
            /\ (wpPc[c] = "recv" /\ wpPc'[c] = "done") =>
                  /\ Closed(c)
                  /\ send[c] = <<>>
                  /\ closeSent'[c] => conn[c] = "open"
                  /\ conn'[c] = "closed"
            /\ (closeSent'[c] /\ ~closeSent[c]) =>
                  (wpPc[c] = "recv" /\ wpPc'[c] = "done")
            /\ (wpPc[c] = "write" /\ wpPc'[c] = "done") =>
                  closeSent'[c] = closeSent[c]]_vars

\* an evicted connection's outbound pump has written its backlog and the
\* close notification, and another pump has exited on a closed queue
\* without being able to write it
C16_Witness ==
    \E c \in evicted, d \in Conns :
        /\ closeSent[c] /\ wpPc[c] = "done" /\ written[c] # <<>>
        /\ Closed(d) /\ wpPc[d] = "done" /\ ~closeSent[d] /\ rpPc[d] = "done"

\* the elements of a sequence
Range(s) == {s[i] : i \in DOMAIN s}

\* every message the server holds: read and waiting for the hub, in a
\* fan-out, in a queue, in an outbound pump, written to a transport
AllMessages ==
    Range(bcastLog)
    \cup {rmsg[c] : c \in {d \in Conns : rpPc[d] = "bcast"}}
    \cup (IF hubPc = "fanout" THEN {hubMsg} ELSE {})
    \cup UNION {Range(enq[c]) \cup Range(send[c]) \cup Range(written[c])
                   \cup Range(InFlight(c)) : c \in Conns}

\* C17 - Identity stamping: every message held by the server carries as
\* sender the username bound to the connection whose inbound pump read it,
\* whatever username was on the wire, and a connection's username does not
\* change once the connection exists.
C17_IdentityStamping ==
    /\ [](\A m \in AllMessages :
            /\ m.timestamp \in DOMAIN readBy
            /\ m.username = username[readBy[m.timestamp]])
    /\ [][\A c \in Conns : gwPc[c] # "idle" => username'[c] = username[c]]_vars

\* a connection holds in its queue a message read by the other connection,
\* which bears a different username
C17_Witness ==
    \E c \in Conns, d \in Conns :
        /\ username[c] # username[d]
        /\ \E m \in Range(send[d]) :
              readBy[m.timestamp] = c /\ m.username = username[c]

\* the connection was admitted and is no longer in the set
Removed(c) == Admitted(c) /\ c \notin clients

\* C18 - A disconnected client stops sending: no step enqueues, to any
\* queue, a message read by a connection that has been removed from the set
\* (by the unregister case or by an eviction).
C18_RemovedStopsSending ==
    [][\A d \in Conns :
          enq'[d] # enq[d] => ~Removed(readBy[hubMsg.timestamp])]_vars

\* C19 - Failure isolation between connections: while connection b waits
\* for the hub with a failed read, a fan-out still delivers to every member
\* with room; b is eventually out of the set; and the step that takes b's
\* remove request changes neither the membership nor the queue (contents,
\* open or closed) of any other connection.
C19_FailureIsolation ==
    /\ [](\A b \in Conns :
            (hubPc = "fanout" /\ ReadEnded(b)) =>
                \A a \in ((fanMembers \ fanFull) \ hubTodo) \ {b} :
                    a \in clients /\ Count(enq[a], hubMsg) = 1)
    /\ \A b \in Conns : ReadEnded(b) ~> (b \notin clients)
    /\ [][\A b \in Conns :
            (rpPc[b] = "unreg" /\ rpPc'[b] = "close") =>
                \A a \in Conns \ {b} :
                    /\ (a \in clients') <=> (a \in clients)
                    /\ send'[a] = send[a]
                    /\ enq'[a] = enq[a]
                    /\ closeCount'[a] = closeCount[a]]_vars

\* b's read has failed and b, still in the set, waits for the hub, which is
\* fanning out a message read by a and has delivered it to a
C19_Witness ==
    \E a \in Conns, b \in Conns :
        /\ a # b
        /\ hubPc = "fanout"
        /\ rpPc[b] = "unreg" /\ b \in fanMembers
        /\ readBy[hubMsg.timestamp] = a
        /\ a \in clients /\ Count(enq[a], hubMsg) = 1

\* C20 - Bounded backlog: no queue ever holds more messages than its
\* capacity.
C20_BoundedBacklog ==
    \A c \in Conns : Len(send[c]) <= SendCap

\* more broadcasts than the capacity were processed while a connection's
\* outbound pump received nothing; its queue is full and it was evicted
C20_Witness ==
    \E c \in evicted :
        /\ Len(send[c]) = SendCap
        /\ written[c] = <<>> /\ wpPc[c] = "recv"
        /\ Len(bcastLog) > SendCap

\* C21 - Queue overflow is the sole trigger of forced eviction: a connection
\* leaves the set only in the step that takes its own remove request or in
\* the loop iteration that finds its queue full, and a loop iteration over a
\* member whose queue has free space leaves it in the set, its queue open.
C21_OverflowSoleTrigger ==
    [][\A c \in Conns :
          /\ (c \in clients /\ c \notin clients') =>
                \/ hubPc = "select" /\ rpPc[c] = "unreg" /\ rpPc'[c] = "close"
                \/ hubPc = "fanout" /\ c \in hubTodo /\ c \notin hubTodo'
                      /\ Len(send[c]) = SendCap
          /\ (hubPc = "fanout" /\ c \in hubTodo /\ c \notin hubTodo'
                /\ c \in clients /\ Len(send[c]) < SendCap) =>
                /\ c \in clients'
                /\ closeCount'[c] = closeCount[c]
          /\ (c \in evicted' /\ c \notin evicted) => Len(send[c]) = SendCap]_vars

\* a fan-out has evicted the member whose queue was full and has visited a
\* member with free space whose transport is closed, which is still in the
\* set with its queue open
C21_Witness ==
    /\ hubPc = "fanout"
    /\ \E c \in fanFull \cap evicted, d \in (fanMembers \ fanFull) \ hubTodo :
        /\ c \notin clients
        /\ d \in clients /\ ~Closed(d)
        /\ conn[d] = "closed"

\* C22 - A broadcast on an empty set is a no-op: a fan-out that starts with
\* no member has nothing to visit, the hub can leave the loop at once, and
\* from taking the message to being back at its select the hub leaves the
\* set empty, every queue (contents, open or closed) as it was, and the
\* process running.
C22_EmptyBroadcastNoOp ==
    /\ []((hubPc = "fanout" /\ fanMembers = {}) =>
            /\ clients = {}
            /\ hubTodo = {}
            /\ Running
            /\ ENABLED HubFanoutDone)
    /\ [][((hubPc = "select" /\ hubPc' = "fanout" /\ clients = {})
              \/ (hubPc = "fanout" /\ fanMembers = {} /\ hubPc' = "select"))
            => /\ clients' = {}
               /\ send' = send
               /\ enq' = enq
               /\ closeCount' = closeCount
               /\ panic' = "none"]_vars

\* an evicted connection has gone on sending; the hub took its message with
\* no member left, came back to its select and has then taken the
\* connection's remove request
C22_Witness ==
    /\ clients = {}
    /\ hubPc = "select"
    /\ Len(bcastLog) = SendCap + 2
    /\ \E c \in evicted : rpPc[c] = "close" /\ Len(enq[c]) = SendCap
    /\ Running

\* the connection whose inbound pump read the message m
Sender(m) == readBy[m.timestamp]

\* C23 as stated - across connections the hub takes the messages in the
\* order in which the inbound pumps started to submit them: of two messages
\* of different connections, the one whose pump reached its send on
\* h.broadcast first (the one read first) is received first.
C23_SubmissionOrder ==
    \A i, j \in DOMAIN bcastLog :
        (i < j /\ Sender(bcastLog[i]) # Sender(bcastLog[j]))
            => bcastLog[i].timestamp < bcastLog[j].timestamp

\* C23 as amended - broadcasts are processed one at a time in the order in
\* which the hub receives them: a message is received only at the select,
\* from a pump blocked on h.broadcast, and every enqueue of a fan-out is of
\* the message received last, so that the fan-out of a message is over
\* before that of the next begins.
C23_ReceptionOrder ==
    /\ [](hubPc = "fanout" =>
            /\ bcastLog # <<>>
            /\ hubMsg = bcastLog[Len(bcastLog)])
    /\ [][/\ bcastLog' # bcastLog =>
               /\ hubPc = "select" /\ hubPc' = "fanout"
               /\ \E c \in Conns :
                     /\ rpPc[c] = "bcast"
                     /\ bcastLog' = Append(bcastLog, rmsg[c])
           /\ \A d \in Conns :
                 enq'[d] # enq[d] =>
                     /\ bcastLog' = bcastLog
                     /\ enq'[d] = Append(enq[d], bcastLog[Len(bcastLog)])]_vars

\* two pumps were waiting on h.broadcast at the same time; the hub took the
\* message of the one that arrived second, fanned it out to both members,
\* and is now fanning out the other one
C23_Witness ==
    /\ hubPc = "fanout"
    /\ Len(bcastLog) = 2
    /\ Sender(bcastLog[1]) # Sender(bcastLog[2])
    /\ bcastLog[1].timestamp > bcastLog[2].timestamp
    /\ \A d \in Conns : enq[d] = <<bcastLog[1]>>
    /\ hubTodo # {}

\* C24 - Admission failure creates nothing: a handler that leaves its start
\* without an open transport (the upgrade failed) has returned, in a step
\* that changes nothing else; no Client exists for it, no register request
\* is ever issued for it, none of its pumps ever starts, and it is never in
\* the set nor in any queue's history.
C24_AdmissionFailureCreatesNothing ==
    /\ [](\A c \in Conns :
            conn[c] = "none" =>
                /\ gwPc[c] \in {"idle", "failed"}
                /\ c \notin clients
                /\ rpPc[c] = "none" /\ wpPc[c] = "none"
                /\ username[c] = ""
                /\ send[c] = <<>> /\ enq[c] = <<>> /\ ~Closed(c))
    /\ [][\A c \in Conns :
            /\ (gwPc[c] = "idle" /\ gwPc'[c] # "idle" /\ conn'[c] = "none") =>
                  /\ gwPc'[c] = "failed"
                  /\ UNCHANGED <<clients, send, closeCount, connVars, pumpVars,
                                 hubLocals, now, panic, histVars, fanVars>>
            /\ gwPc[c] = "failed" =>
                  /\ gwPc'[c] = "failed"
                  /\ conn'[c] = "none"]_vars

\* the second upgrade has failed while the first connection is a member with
\* a message in its queue and the hub in a fan-out
C24_Witness ==
    \E c \in Conns, d \in clients :
        /\ gwPc[c] = "failed"
        /\ d < c
        /\ send[d] # <<>>
        /\ hubPc = "fanout"

\* C25 - Remove request before transport close: the inbound pump gets past
\* its send on h.unregister only in a step in which the hub, at its select,
\* takes that request (removing the connection if it is a member), it closes
\* the transport only from there, and no step of the inbound pump closes
\* the transport before.
C25_CloseAfterRemoveRequest ==
    [][\A c \in Conns :
          /\ (rpPc[c] # "close" /\ rpPc'[c] = "close") =>
                /\ rpPc[c] = "unreg"
                /\ hubPc = "select"
                /\ c \notin clients'
                /\ conn'[c] = conn[c]
          /\ (rpPc[c] # "done" /\ rpPc'[c] = "done") =>
                /\ rpPc[c] = "close"
                /\ conn'[c] = "closed"
          /\ (conn[c] = "open" /\ conn'[c] = "closed" /\ wpPc'[c] = wpPc[c]) =>
                rpPc[c] = "close"]_vars

\* an inbound pump whose read failed has had its remove request taken and
\* has then closed the transport, which the outbound pump, still waiting
\* for a message, had left open
C25_Witness ==
    \E c \in Conns :
        /\ rpPc[c] = "done"
        /\ conn[c] = "closed"
        /\ wpPc[c] = "recv"
        /\ Closed(c) /\ c \notin clients /\ c \notin evicted

\* the clock values of the messages read by the inbound pump of c
ReadStamps(c) == {t \in DOMAIN readBy : readBy[t] = c}

\* C26 - Per-sender ordering: the hub receives the messages of one
\* connection in the order in which its inbound pump read them; every
\* message the pump has read has been received by the hub, except the one it
\* is waiting to submit; and the hub takes the connection's remove request
\* at its select, no fan-out in progress, when all of them were received.
C26_PerSenderOrdering ==
    /\ [](\A i, j \in DOMAIN bcastLog :
            (i < j /\ Sender(bcastLog[i]) = Sender(bcastLog[j]))
                => bcastLog[i].timestamp < bcastLog[j].timestamp)
    /\ [](\A c \in Conns : \A t \in ReadStamps(c) :
            \/ \E i \in DOMAIN bcastLog : bcastLog[i].timestamp = t
            \/ rpPc[c] = "bcast" /\ rmsg[c].timestamp = t)
    /\ [][\A c \in Conns :
            (rpPc[c] = "unreg" /\ rpPc'[c] = "close") =>
                /\ hubPc = "select" /\ hubTodo = {}
                /\ \A t \in ReadStamps(c) :
                      \E i \in DOMAIN bcastLog : bcastLog[i].timestamp = t]_vars

\* a connection has submitted two messages, both were fanned out, in the
\* order of their reading, to the other member, and the hub has then taken
\* the connection's remove request
C26_Witness ==
    \E c \in Conns, d \in Conns :
        /\ c # d
        /\ rpPc[c] = "close"
        /\ ReadStamps(c) = {1, 2}
        /\ Len(enq[d]) = 2
        /\ enq[d][1].timestamp = 1 /\ enq[d][2].timestamp = 2

\* a terminal condition of the connection has occurred: a failed read, a
\* failed write, or an eviction for a full queue
Terminal(c) == ReadEnded(c) \/ wpPc[c] = "done" \/ c \in evicted

\* both pumps of the connection have returned and its transport is closed
Released(c) == rpPc[c] = "done" /\ wpPc[c] = "done" /\ conn[c] = "closed"

\* C27 - No pump leak: after any terminal condition of a connection, both
\* its pumps eventually return and its transport is closed.
C27_NoPumpLeak ==
    \A c \in Conns : Terminal(c) ~> Released(c)

\* C28 - Closing a queue does not discard its backlog: the step that closes
\* a queue leaves its contents as they are; from then on the queue only
\* loses its head, to the outbound pump; and when the close notification
\* has been written, everything that was ever enqueued has been written to
\* the transport before it, in the order of the enqueues.
C28_BacklogSurvivesClose ==
    /\ [](\A c \in Conns :
            closeSent[c] => (written[c] = enq[c] /\ send[c] = <<>>))
    /\ [][\A c \in Conns :
            /\ closeCount'[c] # closeCount[c] =>
                  (send'[c] = send[c] /\ written'[c] = written[c])
            /\ (Closed(c) /\ send'[c] # send[c]) =>
                  /\ wpPc[c] = "recv" /\ wpPc'[c] = "write"
                  /\ wmsg'[c] = Head(send[c])
                  /\ send'[c] = Tail(send[c])
            /\ (Closed(c) /\ written'[c] # written[c]) =>
                  /\ ~closeSent[c]
                  /\ written'[c] = Append(written[c], wmsg[c])]_vars

\* a connection was evicted with a full queue, its outbound pump not having
\* written anything; the pump has since written the whole backlog and then
\* the close notification
C28_Witness ==
    \E c \in evicted :
        /\ closeSent[c]
        /\ Len(enq[c]) = SendCap
        /\ written[c] = enq[c]

\* where the connection stands: 0 not admitted, 1 member, 2 removed
Phase(c) == IF ~Admitted(c) THEN 0 ELSE IF c \in clients THEN 1 ELSE 2

\* C29 - One-way membership: a connection goes from not admitted to member
\* to removed, one phase at a time and never backwards; it enters the set
\* only in the step that takes the one register request of its handler, and
\* only a connection that is not admitted is outside the set with an open
\* queue.
C29_OneWayMembership ==
    /\ [](\A c \in Conns : c \in clients => Admitted(c))
    /\ [][\A c \in Conns :
            /\ Phase(c)' \in {Phase(c), Phase(c) + 1}
            /\ (c \notin clients /\ c \in clients') =>
                  /\ Phase(c) = 0
                  /\ gwPc[c] = "register" /\ gwPc'[c] = "goWrite"
                  /\ hubPc = "select"]_vars

\* one connection has been through the three phases and both its pumps
\* have returned, while the other, admitted after it was removed or
\* before, is a member that has received a message
C29_Witness ==
    \E c \in Conns, d \in clients :
        /\ Phase(c) = 2 /\ gwPc[c] = "done"
        /\ rpPc[c] = "done" /\ wpPc[c] = "done"
        /\ Phase(d) = 1 /\ enq[d] # <<>>

TypeOK ==
    /\ clients \subseteq Conns
    /\ hubPc \in {"select", "fanout"}
    /\ hubTodo \subseteq Conns
    /\ now \in 0..MaxMsgs
    /\ \A c \in Conns : Len(send[c]) <= SendCap

====
